---- MODULE Spec2Model ----
(***************************************************************************)
(* Model of the XSEN A2A Video MCP server: the refresh-on-demand cache     *)
(* over a spreadsheet, its CSV loader and its bounded substring search.    *)
(*                                                                         *)
(* The repository holds two versions of the server:                        *)
(*   src/src/index.js      (parseCsvSimple, ensureCacheFresh, searchVideos)*)
(*   src/unnamed/part_000  (csv-parse, loadSheet, ensureFresh, searchVideos)*)
(* The variable `server` says which of the two files is running.           *)
(*                                                                         *)
(* A JavaScript string is modelled as a sequence of one-character strings, *)
(* so that trim, toLowerCase, split and includes are computed.             *)
(***************************************************************************)
EXTENDS Integers, Sequences, FiniteSets, TLC

VARIABLES
    server,      \* "index" (src/src/index.js) or "part" (src/unnamed/part_000)
    reader,      \* how the sheet is read: "csv" (SHEET_CSV_URL), "api", "none"
    ttl,         \* CACHE_TTL_SECONDS
    maxResults,  \* MAX_RESULTS
    authKey,     \* MCP_AUTH_KEY
    now,         \* nowSec(): the wall clock in seconds
    cache,       \* the module-level cache: [loadedAt, rows]
    req,         \* the requests in flight, one record per connection
    ev,          \* history: what the last step did (call, load, response)
    lastWrite,   \* history: the (loadedAt, rows) of the last completed reload
    flight,      \* history: the reloads in flight, in the order they started
    csvText,     \* input of parseCsvSimple (specification SpecParse)
    parsed,      \* its output
    query,       \* input of searchVideos (specification SpecSearch)
    videos,      \* its output
    phase        \* "in" before, "out" after the function of SpecParse/SpecSearch

vars == <<server, reader, ttl, maxResults, authKey, now, cache, req, ev,
          lastWrite, flight, csvText, parsed, query, videos, phase>>

(***************************************************************************)
(* Bounds of the model and program constants                               *)
(***************************************************************************)
MaxCsvLen == 6
MaxRows == 3
MaxTime == 4
MaxTTL == 2
MaxMaxResults == 3

DEFAULT_CACHE_TTL_SECONDS == 900
DEFAULT_MAX_RESULTS == 3

(***************************************************************************)
(* Strings                                                                 *)
(***************************************************************************)
QUOTE == "\""
Range(s) == {s[i] : i \in 1..Len(s)}

\* The characters String.prototype.trim removes, among those of the model.
IsSpace(c) == c \in {" ", "\t", "\n", "\r"}

RECURSIVE TrimLeft(_)
TrimLeft(s) ==
    IF s = <<>> THEN s
    ELSE IF IsSpace(Head(s)) THEN TrimLeft(Tail(s)) ELSE s

RECURSIVE TrimRight(_)
TrimRight(s) ==
    IF s = <<>> THEN s
    ELSE IF IsSpace(s[Len(s)]) THEN TrimRight(SubSeq(s, 1, Len(s) - 1)) ELSE s

trim(s) == TrimRight(TrimLeft(s))

LowerChar(c) ==
    CASE c = "A" -> "a"
      [] c = "B" -> "b"
      [] c = "C" -> "c"
      [] OTHER -> c

toLowerCase(s) == [i \in 1..Len(s) |-> LowerChar(s[i])]

\* String.prototype.includes: q is a contiguous substring of hay.
includes(hay, q) ==
    \E i \in 0..(Len(hay) - Len(q)) : SubSeq(hay, i + 1, i + Len(q)) = q

\* Array.prototype.slice(0, end), also for a negative end (counted from the end).
slice0(arr, end) ==
    LET n == Len(arr)
        k == IF end < 0 THEN (IF n + end < 0 THEN 0 ELSE n + end)
             ELSE (IF end > n THEN n ELSE end)
    IN  SubSeq(arr, 1, k)

\* The value of a missing property (row[col] of an absent column, a missing
\* query argument): no string is equal to it.
Undefined == <<"undefined">>

\* s ?? ""
OrEmpty(s) == IF s = Undefined THEN <<>> ELSE s

normalize(s) == trim(OrEmpty(s))

lower(s) == toLowerCase(normalize(s))

\* String.prototype.split(d) for a one-character separator d.
RECURSIVE SplitAcc(_, _, _)
SplitAcc(s, d, cur) ==
    IF s = <<>> THEN <<cur>>
    ELSE IF Head(s) = d THEN <<cur>> \o SplitAcc(Tail(s), d, <<>>)
    ELSE SplitAcc(Tail(s), d, Append(cur, Head(s)))

split(s, d) == SplitAcc(s, d, <<>>)

\* String.prototype.split(/\r?\n/): one \r right before the \n belongs to
\* the separator.
DropCR(l) ==
    IF l # <<>> /\ l[Len(l)] = "\r" THEN SubSeq(l, 1, Len(l) - 1) ELSE l

RECURSIVE SplitLinesAcc(_, _)
SplitLinesAcc(s, cur) ==
    IF s = <<>> THEN <<cur>>
    ELSE IF Head(s) = "\n" THEN <<DropCR(cur)>> \o SplitLinesAcc(Tail(s), <<>>)
    ELSE SplitLinesAcc(Tail(s), Append(cur, Head(s)))

splitLines(s) == SplitLinesAcc(s, <<>>)

\* String.prototype.replace(/^"|"$/g, ""): one leading and one trailing quote.
stripQuotes(c) ==
    LET a == IF c # <<>> /\ Head(c) = QUOTE THEN Tail(c) ELSE c
    IN  IF a # <<>> /\ a[Len(a)] = QUOTE THEN SubSeq(a, 1, Len(a) - 1) ELSE a

RECURSIVE FilterNonEmpty(_)
FilterNonEmpty(ls) ==
    IF ls = <<>> THEN <<>>
    ELSE IF Head(ls) = <<>> THEN FilterNonEmpty(Tail(ls))
    ELSE <<Head(ls)>> \o FilterNonEmpty(Tail(ls))

(***************************************************************************)
(* CsvRowLoader of index.js                                                *)
(***************************************************************************)
\* csvText.split(/\r?\n/).map(l => l.trim()).filter(Boolean)
csvLines(text) ==
    LET raw == splitLines(text)
    IN  FilterNonEmpty([i \in 1..Len(raw) |-> trim(raw[i])])

\* line.split(",").map(c => c.replace(/^"|"$/g, "").trim())
csvCells(line) ==
    LET raw == split(line, ",")
    IN  [i \in 1..Len(raw) |-> trim(stripQuotes(raw[i]))]

\* headers.forEach((h, idx) => (row[h] = cols[idx] ?? "")): a later header of
\* the same name overwrites the earlier one.
mkRow(headers, cols) ==
    [h \in Range(headers) |->
        LET idx == CHOOSE i \in 1..Len(headers) :
                       /\ headers[i] = h
                       /\ \A j \in 1..Len(headers) : headers[j] = h => j <= i
        IN  IF idx <= Len(cols) THEN cols[idx] ELSE <<>>]

\* parseCsvSimple with the loop over the data lines starting one line late.
parseCsvSimple_SkipsFirst(text) ==
    LET lines == csvLines(text)
    IN  IF Len(lines) < 2 THEN <<>>
        ELSE LET headers == csvCells(lines[1])
             IN  [i \in 1..(Len(lines) - 2) |-> mkRow(headers, csvCells(lines[i + 2]))]

\* parseCsvSimple without a header line: every line is a data line, keyed by
\* the cells of the first.
parseCsvSimple_NoHeader(text) ==
    LET lines == csvLines(text)
    IN  IF Len(lines) < 1 THEN <<>>
        ELSE LET headers == csvCells(lines[1])
             IN  [i \in 1..Len(lines) |-> mkRow(headers, csvCells(lines[i]))]

parseCsvSimple(text) ==
    LET lines == csvLines(text)
    IN  IF Len(lines) < 2 THEN <<>>
        ELSE LET headers == csvCells(lines[1])
             IN  [i \in 1..(Len(lines) - 1) |-> mkRow(headers, csvCells(lines[i + 1]))]

(***************************************************************************)
(* The Sheets API reader of index.js (Option B)                            *)
(***************************************************************************)
\* data.values ?? [], then the header row keys every later row.
fetchSheetViaApiKey(data) ==
    LET values == IF "values" \in DOMAIN data THEN data.values ELSE <<>>
    IN  IF Len(values) < 2 THEN <<>>
        ELSE LET headers == [i \in 1..Len(values[1]) |-> normalize(values[1][i])]
             IN  [i \in 1..(Len(values) - 1) |-> mkRow(headers, values[i + 1])]

(***************************************************************************)
(* The CSV loader of part_000: parse(csvText, {columns: true,              *)
(* skip_empty_lines: true, relax_quotes: true, relax_column_count: true,   *)
(* trim: true}) of the csv-parse package, on texts whose cells hold no     *)
(* delimiter and no quote other than an enclosing pair or an opening quote *)
(* that is never closed. trim removes the white space around a cell and    *)
(* keeps the white space inside a quoted cell; a record shorter than the   *)
(* header has no key for the missing columns; an opening quote that is     *)
(* never closed is an error.                                               *)
(***************************************************************************)
csvIsQuoted(c) == Len(c) >= 2 /\ Head(c) = QUOTE /\ c[Len(c)] = QUOTE

csvUnclosed(c) == c # <<>> /\ Head(c) = QUOTE /\ ~csvIsQuoted(c)

csvField(raw) ==
    LET c == trim(raw)
    IN  IF csvIsQuoted(c) THEN SubSeq(c, 2, Len(c) - 1) ELSE c

csvRecord(line) ==
    LET raw == split(line, ",")
    IN  [i \in 1..Len(raw) |-> csvField(raw[i])]

csvObject(columns, fields) ==
    LET n == IF Len(fields) < Len(columns) THEN Len(fields) ELSE Len(columns)
    IN  [h \in {columns[i] : i \in 1..n} |->
            LET idx == CHOOSE i \in 1..n :
                           /\ columns[i] = h
                           /\ \A j \in 1..n : columns[j] = h => j <= i
            IN  fields[idx]]

csvParseLines(text) == FilterNonEmpty(splitLines(text))

\* TRUE when parse throws.
csvParseThrows(text) ==
    LET lines == csvParseLines(text)
    IN  \E i \in 1..Len(lines) :
            LET raw == split(lines[i], ",")
            IN  \E j \in 1..Len(raw) : csvUnclosed(trim(raw[j]))

csvParse(text) ==
    LET lines == csvParseLines(text)
    IN  IF Len(lines) < 2 THEN <<>>
        ELSE LET columns == csvRecord(lines[1])
             IN  [i \in 1..(Len(lines) - 1) |->
                     csvObject(columns, csvRecord(lines[i + 1]))]

(***************************************************************************)
(* Search                                                                  *)
(***************************************************************************)
\* The configured column names (TITLE_COL, DESC_COL, URL_COL).
TITLE_COL == <<"t">>
DESC_COL == <<"d">>
URL_COL == <<"u">>

\* row[col]
Col(row, col) == IF col \in DOMAIN row THEN row[col] ELSE Undefined

\* index.js: every field is normalized (trimmed) before it is tested.
projectIndex(r) ==
    [title |-> normalize(Col(r, TITLE_COL)),
     description |-> normalize(Col(r, DESC_COL)),
     url |-> normalize(Col(r, URL_COL))]

hay(v) == toLowerCase(v.title \o <<" ">> \o v.description)

matchesIndex(v, q) ==
    IF v.title = <<>> \/ v.url = <<>> THEN FALSE ELSE includes(hay(v), q)

\* searchVideos of index.js, on cache.rows and MAX_RESULTS.
searchVideos(rows, max, queryArg) ==
    LET q == lower(queryArg)
    IN  IF q = <<>> THEN <<>>
        ELSE LET cands == [i \in 1..Len(rows) |-> projectIndex(rows[i])]
                 keep(v) == matchesIndex(v, q)
             IN  slice0(SelectSeq(cands, keep), max)

\* part_000: the fields are taken as stored (row[col] ?? "").
projectPart(r) ==
    [title |-> OrEmpty(Col(r, TITLE_COL)),
     description |-> OrEmpty(Col(r, DESC_COL)),
     url |-> OrEmpty(Col(r, URL_COL))]

hasRequiredPart(v) == v.title # <<>> /\ v.url # <<>>

\* searchVideos of part_000, on cache.rows and MAX_RESULTS.
searchVideosPart(rows, max, queryArg) ==
    LET q == toLowerCase(queryArg)
        cands == [i \in 1..Len(rows) |-> projectPart(rows[i])]
        keep(v) == hasRequiredPart(v) /\ includes(hay(v), q)
    IN  slice0(SelectSeq(cands, keep), max)

(***************************************************************************)
(* What the external sheet can answer                                      *)
(***************************************************************************)
\* Published CSV texts (the body of the answer to fetch(SHEET_CSV_URL)).
\*   rows:   t,d,u / Ab,,x / " ",a,x / B a,c,
\*   header: t,d,u
\*   empty:  (no character)
\*   open:   t,u / "a,x
CsvBody ==
    [rows   |-> <<"t", ",", "d", ",", "u", "\n",
                  "A", "b", ",", ",", "x", "\n",
                  QUOTE, " ", QUOTE, ",", "a", ",", "x", "\n",
                  "B", " ", "a", ",", "c", ",">>,
     header |-> <<"t", ",", "d", ",", "u">>,
     empty  |-> <<>>,
     open   |-> <<"t", ",", "u", "\n", QUOTE, "a", ",", "x">>]

\* Answers of the Sheets API values endpoint (the parsed JSON).
ApiBody ==
    [vals   |-> [values |-> << <<<<"t">>, <<"d">>, <<"u">>>>,
                               <<<<" ">>, <<"a">>, <<"x">>>>,
                               <<<<"A", "b">>, <<>>, <<" ", "x">>>> >>],
     short  |-> [values |-> << <<<<"t">>, <<"d">>, <<"u">>>> >>],
     absent |-> [range |-> <<"S">>]]

Bodies == IF reader = "api" THEN DOMAIN ApiBody ELSE DOMAIN CsvBody

(***************************************************************************)
(* Requests                                                                *)
(***************************************************************************)
Clients == {"c1", "c2"}

\* params.arguments.query
Queries == {Undefined, <<" ">>, <<"a">>}

\* The Authorization header: absent, the right key, a wrong key.
Bearer(key) == <<"Bearer ", key>>
AuthHeaders == {Undefined, Bearer("k"), Bearer("x")}

Methods == {"initialize", "notifications/initialized", "tools/list",
            "tools/call", "other"}

\* The tool name is read by tools/call alone.
ToolNames(method) ==
    IF method = "tools/call" THEN {"xsen_search", "other"} ELSE {"other"}

NoVideos == <<>>
NoAge == <<>>

Response(status, kind, code, message, vids) ==
    [status |-> status, kind |-> kind, code |-> code, message |-> message,
     videos |-> vids, cached_rows |-> 0, cache_age_seconds |-> NoAge]

NoResponse == Response(0, "none", 0, "", NoVideos)

\* One run of a request handler. pc: where the handler is ("idle", "fetch":
\* awaiting fetch(), "text": awaiting the body, "search": ensureFresh() has
\* resolved and the handler's continuation is queued, "done": answered).
\* History: called (ensureFresh was invoked), what its freshness check read
\* (age0, loaded0, rows0: kept in the record of the step that calls it),
\* loads (the calls of loadSheet()/fetchSheetRows() it made), load (how the
\* reload ended), body (the answer it received), q (the query searched).
IdleReq ==
    [pc |-> "idle", q |-> Undefined, called |-> FALSE, age0 |-> 0,
     loaded0 |-> FALSE, rows0 |-> 0, loads |-> 0, load |-> "none",
     body |-> "", resp |-> NoResponse]

\* A request ends: the response is sent.
Respond(r, resp) == [r EXCEPT !.pc = "done", !.resp = resp]

(***************************************************************************)
(* The cache                                                               *)
(***************************************************************************)
EmptyCache == [loadedAt |-> 0, rows |-> <<>>]

\* isFresh with the comparison turned around.
isFresh_Flipped ==
    LET age == now - cache.loadedAt
    IN  Len(cache.rows) > 0 /\ age > ttl

\* isFresh without the test of the rows: an empty load is fresh for ttl
\* seconds.
isFresh_AgeOnly ==
    LET age == now - cache.loadedAt
    IN  age < ttl

\* index.js, ensureCacheFresh: the cache hit that returns without a reload.
isFresh ==
    LET age == now - cache.loadedAt
    IN  Len(cache.rows) > 0 /\ age < ttl

\* isStale with the age compared to 0 instead of the ttl: rows of any age are
\* stale.
isStale_AnyAge == Len(cache.rows) = 0 \/ now - cache.loadedAt >= 0

\* part_000, ensureFresh: the condition under which loadSheet() is awaited.
isStale == Len(cache.rows) = 0 \/ now - cache.loadedAt > ttl

\* cacheReplace stamping the rows with a second before the completion.
cacheReplace_EarlierTime(rows) == [loadedAt |-> now - 1, rows |-> rows]

\* cacheReplace keeping what an earlier reload has written: the first
\* completed reload wins.
cacheReplace_KeepsFirst(rows) ==
    IF cache.loadedAt # 0 THEN cache ELSE [loadedAt |-> now, rows |-> rows]

\* index.js: cache = { loadedAt: nowSec(), rows }
cacheReplace(rows) == [loadedAt |-> now, rows |-> rows]

\* cacheAssign without the second assignment: the rows of the new load stay
\* paired with the loadedAt of the old one.
cacheAssign_RowsOnly(records) == [cache EXCEPT !.rows = records]

\* part_000: cache.rows = records; cache.loadedAt = nowSec(); the two
\* assignments run in one turn of the event loop, with no await between them.
cacheAssign(records) == [cache EXCEPT !.rows = records, !.loadedAt = now]

(***************************************************************************)
(* POST /mcp                                                               *)
(***************************************************************************)
Unauthorized == Response(401, "error", -32600, "Unauthorized", NoVideos)
MissingKey == Response(500, "error", -32000, "Server missing MCP_AUTH_KEY", NoVideos)
InvalidVersion == Response(200, "error", -32600, "Invalid JSON-RPC version", NoVideos)
Initialized == Response(200, "result", 0, "initialize", NoVideos)
NotificationAck == Response(200, "empty", 0, "", NoVideos)
ToolsList == Response(200, "result", 0, "tools", NoVideos)
UnknownMethod == Response(200, "error", -32601, "Unknown method", NoVideos)
VideosResult(vids) == Response(200, "videos", 0, "", vids)

\* The catch block answering with an empty success payload.
McpCatch_EmptySuccess == VideosResult(<<>>)

\* part_000: the catch block of the handler.
McpCatch == Response(200, "error", -32603, "Internal error", NoVideos)

\* index.js: the handler's catch block lies beyond the end of the file as
\* given; a failed reload is answered with an application error.
McpCatchIndex == Response(200, "error", -32603, "Internal error", NoVideos)

\* Throw with the exception swallowed: the handler goes on to the search.
Throw_Swallows(r) ==
    [r EXCEPT !.load = IF @ = "started" THEN "failed" ELSE @, !.pc = "search"]

\* An exception reaches the handler's catch block: the request is answered
\* with the error.
Throw(r) ==
    Respond([r EXCEPT !.load = IF @ = "started" THEN "failed" ELSE @],
            IF server = "index" THEN McpCatchIndex ELSE McpCatch)

\* The fetch is issued and the request waits for it.
AwaitFetch(r) == [r EXCEPT !.pc = "fetch"]

\* part_000, loadSheet up to its first await.
loadSheet(r) ==
    LET l == [r EXCEPT !.loads = @ + 1, !.load = "started"]
    IN  IF reader = "none" THEN Throw(l) ELSE AwaitFetch(l)

\* part_000, ensureFresh up to its first await.
ensureFresh(r) ==
    IF isStale THEN loadSheet(r) ELSE [r EXCEPT !.pc = "search"]

\* index.js, fetchSheetRows up to its first await: Option A, Option B (which
\* needs SHEET_ID), or no reader configured.
fetchSheetRows(r) ==
    LET l == [r EXCEPT !.loads = @ + 1, !.load = "started"]
    IN  IF reader \in {"csv", "api"} THEN AwaitFetch(l) ELSE Throw(l)

\* index.js, ensureCacheFresh up to its first await.
ensureCacheFresh(r) ==
    IF isFresh THEN [r EXCEPT !.pc = "search"] ELSE fetchSheetRows(r)

\* The request record at the call of ensureFresh()/ensureCacheFresh(): what
\* the freshness check reads is kept as history.
AtCall ==
    [IdleReq EXCEPT !.called = TRUE,
                    !.age0 = now - cache.loadedAt,
                    !.loaded0 = (cache.loadedAt # 0),
                    !.rows0 = Len(cache.rows)]

\* part_000: tools/call of xsen_search, up to the await of ensureFresh().
toolsCall == ensureFresh(AtCall)

\* index.js: the tools/call branch lies beyond the end of the file as given;
\* the request handler calls ensureCacheFresh() and then the search.
toolsCallIndex == ensureCacheFresh(AtCall)

\* authFails letting every header pass.
authFails_Never(hdr) == FALSE

\* part_000: the authorization check.
authFails(hdr) == hdr # Bearer(authKey)

\* The dispatch after the authorization check (the same in both files up to
\* tools/list).
dispatch(rpc, method, tool) ==
    IF rpc # "2.0" THEN Respond(IdleReq, InvalidVersion)
    ELSE IF method = "initialize" THEN Respond(IdleReq, Initialized)
    ELSE IF method = "notifications/initialized" THEN Respond(IdleReq, NotificationAck)
    ELSE IF method = "tools/list" THEN Respond(IdleReq, ToolsList)
    ELSE IF method = "tools/call" /\ tool = "xsen_search"
         THEN (IF server = "index" THEN toolsCallIndex ELSE toolsCall)
    ELSE Respond(IdleReq, UnknownMethod)

\* part_000: app.post("/mcp") up to its first await.
mcpPart(hdr, rpc, method, tool) ==
    IF authFails(hdr) THEN Respond(IdleReq, Unauthorized)
    ELSE dispatch(rpc, method, tool)

\* index.js: app.post("/mcp") up to its first await.
mcpIndex(hdr, rpc, method, tool) ==
    LET authHeader == IF hdr = Undefined THEN <<"">> ELSE hdr
    IN  IF authKey = "" THEN Respond(IdleReq, MissingKey)
        ELSE IF authHeader # Bearer(authKey) THEN Respond(IdleReq, Unauthorized)
        ELSE dispatch(rpc, method, tool)

(***************************************************************************)
(* Actions of the server                                                   *)
(***************************************************************************)
pureVars == <<csvText, parsed, query, videos, phase>>
configVars == <<server, reader, ttl, maxResults, authKey>>

\* What stays of a handler run between two steps: a handler that has answered
\* is gone.
Pending(r) ==
    IF r.pc = "done" THEN [pc |-> "idle", load |-> "none"]
    ELSE [pc |-> r.pc, load |-> r.load]

\* The handler run of connection c, resumed.
Resumed(c) ==
    [IdleReq EXCEPT !.pc = req[c].pc, !.called = TRUE, !.load = req[c].load,
                    !.loads = IF req[c].load = "none" THEN 0 ELSE 1]

\* History of the reloads in flight: the connections in the order their
\* reloads started; those whose freshness check is older than the last write
\* of the cache (written); those among them that a reload started later has
\* written before (overtaken).
NoFlight == [order |-> <<>>, written |-> {}, overtaken |-> {}]

\* The reload of connection c starts.
flightStart(c) == [flight EXCEPT !.order = Append(@, c)]

\* The connections whose reload started before the reload of c.
StartedBefore(c) ==
    {flight.order[i] : i \in {k \in 1..Len(flight.order) :
                                 \E j \in (k + 1)..Len(flight.order) :
                                     flight.order[j] = c}}

\* The reload of connection c ends; wrote says whether it wrote the cache.
flightEnd(c, wrote) ==
    LET rest(x) == x # c
        others == Range(flight.order) \ {c}
    IN  [order |-> SelectSeq(flight.order, rest),
         written |-> IF wrote THEN others ELSE flight.written \ {c},
         overtaken |-> IF wrote THEN (flight.overtaken \cup StartedBefore(c)) \ {c}
                       ELSE flight.overtaken \ {c}]

\* The record of a step: the step's name, the connection, the handler run
\* after the step, the request header's validity, the cache before it and
\* what happened to the cache since the connection's reload started.
Event(step, c, r, authorized) ==
    [step |-> step, c |-> c, run |-> r, authorized |-> authorized,
     before |-> cache, written |-> c \in flight.written,
     overtaken |-> c \in flight.overtaken]

\* A request arrives at POST /mcp and runs up to its first await (or to its
\* response).
McpPost(c) ==
    /\ req[c].pc = "idle"
    /\ \E hdr \in AuthHeaders, rpc \in {"2.0", "1.0"}, method \in Methods :
       \E tool \in ToolNames(method) :
          LET r == IF server = "index" THEN mcpIndex(hdr, rpc, method, tool)
                   ELSE mcpPart(hdr, rpc, method, tool)
          IN  /\ req' = [req EXCEPT ![c] = Pending(r)]
              /\ ev' = Event("mcp", c, r, hdr = Bearer(authKey) /\ authKey # "")
              /\ flight' = IF r.pc = "fetch" THEN flightStart(c) ELSE flight
    /\ UNCHANGED <<configVars, now, cache, lastWrite, pureVars>>

\* FetchFails dropping the cached rows when the fetch fails.
FetchFails_ClearsCache(c) ==
    /\ req[c].pc = "fetch"
    /\ LET r == Throw(Resumed(c))
       IN  /\ req' = [req EXCEPT ![c] = Pending(r)]
           /\ ev' = Event("fetchFails", c, r, TRUE)
    /\ cache' = EmptyCache
    /\ flight' = flightEnd(c, FALSE)
    /\ UNCHANGED <<configVars, now, lastWrite, pureVars>>

\* fetch() rejects (network failure) or answers with a status that is not
\* ok: fetchSheetRows / fetchSheetViaApiKey / loadSheet throw.
FetchFails(c) ==
    /\ req[c].pc = "fetch"
    /\ LET r == Throw(Resumed(c))
       IN  /\ req' = [req EXCEPT ![c] = Pending(r)]
           /\ ev' = Event("fetchFails", c, r, TRUE)
    /\ flight' = flightEnd(c, FALSE)
    /\ UNCHANGED <<configVars, now, cache, lastWrite, pureVars>>

\* fetch() answers with an ok status: the body is awaited.
FetchOk(c) ==
    /\ req[c].pc = "fetch"
    /\ LET r == [Resumed(c) EXCEPT !.pc = "text"]
       IN  /\ req' = [req EXCEPT ![c] = Pending(r)]
           /\ ev' = Event("fetchOk", c, r, TRUE)
    /\ UNCHANGED <<configVars, now, cache, lastWrite, flight, pureVars>>

\* res.text() / res.json() rejects.
BodyFails(c) ==
    /\ req[c].pc = "text"
    /\ LET r == Throw(Resumed(c))
       IN  /\ req' = [req EXCEPT ![c] = Pending(r)]
           /\ ev' = Event("bodyFails", c, r, TRUE)
    /\ flight' = flightEnd(c, FALSE)
    /\ UNCHANGED <<configVars, now, cache, lastWrite, pureVars>>

\* The handler run once the reload has written the cache.
Loaded(c, b) == [Resumed(c) EXCEPT !.pc = "search", !.load = "ok", !.body = b]

\* part_000, loadSheet after the body has arrived: parse, then the cache is
\* written; a parse error is thrown before the cache is touched.
loadSheetDone(c, b) ==
    IF csvParseThrows(CsvBody[b])
    THEN /\ req' = [req EXCEPT ![c] = Pending(Throw(Resumed(c)))]
         /\ ev' = Event("parseFails", c, Throw([Resumed(c) EXCEPT !.body = b]), TRUE)
         /\ flight' = flightEnd(c, FALSE)
         /\ UNCHANGED <<cache, lastWrite>>
    ELSE LET records == csvParse(CsvBody[b])
         IN  /\ cache' = cacheAssign(records)
             /\ lastWrite' = [loadedAt |-> now, rows |-> records]
             /\ req' = [req EXCEPT ![c] = Pending(Loaded(c, b))]
             /\ ev' = Event("loaded", c, Loaded(c, b), TRUE)
             /\ flight' = flightEnd(c, TRUE)

\* index.js, fetchSheetRows and ensureCacheFresh after the body has arrived.
ensureCacheFreshDone(c, b) ==
    LET rows == IF reader = "api" THEN fetchSheetViaApiKey(ApiBody[b])
                ELSE parseCsvSimple(CsvBody[b])
    IN  /\ cache' = cacheReplace(rows)
        /\ lastWrite' = [loadedAt |-> now, rows |-> rows]
        /\ req' = [req EXCEPT ![c] = Pending(Loaded(c, b))]
        /\ ev' = Event("loaded", c, Loaded(c, b), TRUE)
        /\ flight' = flightEnd(c, TRUE)

\* The body of the answer arrives.
BodyArrives(c) ==
    /\ req[c].pc = "text"
    /\ \E b \in Bodies :
          IF server = "index" THEN ensureCacheFreshDone(c, b)
          ELSE loadSheetDone(c, b)
    /\ UNCHANGED <<configVars, now, pureVars>>

\* part_000: the handler after await ensureFresh(): the query is read
\* (params?.arguments?.query ?? ""), the cache is searched, the answer sent.
searchAnswer(q) ==
    VideosResult(searchVideosPart(cache.rows, maxResults, OrEmpty(q)))

\* index.js: the same step of the handler, which lies beyond the end of the
\* file as given; the search is searchVideos of index.js.
searchAnswerIndex(q) ==
    VideosResult(searchVideos(cache.rows, maxResults, q))

\* Search held back while another connection waits for its fetch: a handler
\* that waits for the reloads of the others.
Search_WaitsForOthers(c) ==
    /\ req[c].pc = "search"
    /\ \A d \in Clients \ {c} : req[d].pc \notin {"fetch", "hung"}
    /\ \E q \in Queries :
          LET r == Respond([Resumed(c) EXCEPT !.q = q],
                           IF server = "index" THEN searchAnswerIndex(q)
                           ELSE searchAnswer(q))
          IN  /\ req' = [req EXCEPT ![c] = Pending(r)]
              /\ ev' = Event("search", c, r, TRUE)
    /\ UNCHANGED <<configVars, now, cache, lastWrite, flight, pureVars>>

Search(c) ==
    /\ req[c].pc = "search"
    /\ \E q \in Queries :
          LET r == Respond([Resumed(c) EXCEPT !.q = q],
                           IF server = "index" THEN searchAnswerIndex(q)
                           ELSE searchAnswer(q))
          IN  /\ req' = [req EXCEPT ![c] = Pending(r)]
              /\ ev' = Event("search", c, r, TRUE)
    /\ UNCHANGED <<configVars, now, cache, lastWrite, flight, pureVars>>

\* GET /
rootStatus ==
    [Response(200, "status", 0, "ok", NoVideos) EXCEPT
        !.cached_rows = Len(cache.rows),
        !.cache_age_seconds = IF cache.loadedAt # 0 THEN <<now - cache.loadedAt>>
                              ELSE NoAge]

\* GetRoot dropping the cache after it has reported it.
GetRoot_Resets ==
    /\ ev' = Event("root", "", Respond(IdleReq, rootStatus), TRUE)
    /\ cache' = EmptyCache
    /\ UNCHANGED <<configVars, now, req, lastWrite, flight, pureVars>>

GetRoot ==
    /\ ev' = Event("root", "", Respond(IdleReq, rootStatus), TRUE)
    /\ UNCHANGED <<configVars, now, cache, req, lastWrite, flight, pureVars>>

\* GET /health
healthOk == Response(200, "text", 0, "OK", NoVideos)

GetHealth ==
    /\ ev' = Event("health", "", Respond(IdleReq, healthOk), TRUE)
    /\ UNCHANGED <<configVars, now, cache, req, lastWrite, flight, pureVars>>

\* The clock advances.
Tick ==
    /\ now < MaxTime
    /\ now' = now + 1
    /\ ev' = Event("tick", "", IdleReq, TRUE)
    /\ UNCHANGED <<configVars, cache, req, lastWrite, flight, pureVars>>

Readers == IF server = "index" THEN {"csv", "api", "api_noid", "none"}
           ELSE {"csv", "none"}

NoEvent == [step |-> "start", c |-> "", run |-> IdleReq, authorized |-> TRUE,
            before |-> EmptyCache, written |-> FALSE, overtaken |-> FALSE]

PureIdle ==
    /\ csvText = <<>>
    /\ parsed = <<>>
    /\ query = <<>>
    /\ videos = <<>>
    /\ phase = "server"

Init ==
    /\ server \in {"index", "part"}
    /\ reader \in Readers
    /\ ttl \in -1..MaxTTL
    /\ maxResults = DEFAULT_MAX_RESULTS
    /\ authKey \in {"", "k"}
    /\ now = 1
    /\ cache = EmptyCache
    /\ req = [c \in Clients |-> Pending(IdleReq)]
    /\ ev = NoEvent
    /\ lastWrite = EmptyCache
    /\ flight = NoFlight
    /\ PureIdle

Next ==
    \/ \E c \in Clients : McpPost(c)
    \/ \E c \in Clients : FetchFails(c)
    \/ \E c \in Clients : FetchOk(c)
    \/ \E c \in Clients : BodyFails(c)
    \/ \E c \in Clients : BodyArrives(c)
    \/ \E c \in Clients : Search(c)
    \/ GetRoot
    \/ GetHealth
    \/ Tick

Spec == Init /\ [][Next]_vars

(***************************************************************************)
(* SpecParse: parseCsvSimple on every text of at most MaxCsvLen characters *)
(***************************************************************************)
CsvAlphabet == {"a", ",", "\n", "\r", " ", QUOTE}

CsvTexts == UNION {[1..n -> CsvAlphabet] : n \in 0..MaxCsvLen}

ServerIdle ==
    /\ server = "index"
    /\ reader = "csv"
    /\ ttl = DEFAULT_CACHE_TTL_SECONDS
    /\ maxResults = DEFAULT_MAX_RESULTS
    /\ authKey = "k"
    /\ now = 1
    /\ cache = EmptyCache
    /\ req = [c \in Clients |-> Pending(IdleReq)]
    /\ ev = NoEvent
    /\ lastWrite = EmptyCache
    /\ flight = NoFlight

InitParse ==
    /\ ServerIdle
    /\ csvText \in CsvTexts
    /\ parsed = <<>>
    /\ query = <<>>
    /\ videos = <<>>
    /\ phase = "in"

Parse ==
    /\ phase = "in"
    /\ parsed' = parseCsvSimple(csvText)
    /\ phase' = "out"
    /\ UNCHANGED <<configVars, now, cache, req, ev, lastWrite, flight, csvText,
                   query, videos>>

NextParse == Parse

SpecParse == InitParse /\ [][NextParse]_vars

(***************************************************************************)
(* SpecSearch: searchVideos of both files on bounded caches and queries    *)
(***************************************************************************)
Str1(a) == <<a>>
Str2(a, b) == <<a, b>>
Str3(a, b, c) == <<a, b, c>>

\* A row: its title, description and url columns.
Row3(t, d, u) == (TITLE_COL :> t) @@ (DESC_COL :> d) @@ (URL_COL :> u)

\* Rows as both loaders produce them from a sheet of unquoted cells: every
\* value is trimmed; a column the sheet does not have is absent.
RowSet ==
    { Row3(Str2("A", "b"), Str1("c"), Str1("x")),
      Row3(Str1("b"), <<>>, Str1("x")),
      Row3(Str3("B", " ", "a"), Str1("c"), <<>>),
      Row3(<<>>, Str1("a"), Str1("x")),
      (TITLE_COL :> Str1("a")) @@ (URL_COL :> Str2("x", "b")),
      (TITLE_COL :> Str3("a", " ", "b")) @@ (DESC_COL :> Str1("a")) }

RowSeqs == UNION {[1..n -> RowSet] : n \in 0..MaxRows}

SearchQueries ==
    {<<>>, Str1(" "), Str1("a"), Str1("B"), Str3("b", " ", "c"), Str2(" ", "a")}

\* The rows of one load of index.js all have the header's keys.
SameColumns(rows) == \A i, j \in 1..Len(rows) : DOMAIN rows[i] = DOMAIN rows[j]

InitSearch ==
    /\ server \in {"index", "part"}
    /\ reader = "csv"
    /\ ttl = DEFAULT_CACHE_TTL_SECONDS
    /\ maxResults \in -1..MaxMaxResults
    /\ authKey = "k"
    /\ now = 1
    /\ \E rows \in RowSeqs :
          /\ server = "index" => SameColumns(rows)
          /\ cache = [loadedAt |-> 1, rows |-> rows]
          /\ lastWrite = cache
    /\ flight = NoFlight
    /\ req = [c \in Clients |-> Pending(IdleReq)]
    /\ ev = NoEvent
    /\ csvText = <<>>
    /\ parsed = <<>>
    /\ query \in SearchQueries
    /\ videos = <<>>
    /\ phase = "in"

\* searchVideos of the running file.
SearchFn(rows, max, q) ==
    IF server = "index" THEN searchVideos(rows, max, q)
    ELSE searchVideosPart(rows, max, q)

SearchStep ==
    /\ phase = "in"
    /\ videos' = SearchFn(cache.rows, maxResults, query)
    /\ phase' = "out"
    /\ UNCHANGED <<configVars, now, cache, req, ev, lastWrite, flight, csvText,
                   parsed, query>>

NextSearch == SearchStep

SpecSearch == InitSearch /\ [][NextSearch]_vars

(***************************************************************************)
(* SpecLive: the server with a fetch that may never complete, under the    *)
(* scheduling of the event loop: a continuation that is ready to run is    *)
(* run, and a body that has started to arrive ends (in text or in error).  *)
(***************************************************************************)
\* The fetch of connection c never completes: the promise of fetch() is
\* never settled and the handler stays at its await.
FetchHangs(c) ==
    /\ req[c].pc = "fetch"
    /\ LET r == [Resumed(c) EXCEPT !.pc = "hung"]
       IN  /\ req' = [req EXCEPT ![c] = Pending(r)]
           /\ ev' = Event("fetchHangs", c, r, TRUE)
    /\ UNCHANGED <<configVars, now, cache, lastWrite, flight, pureVars>>

InitLive ==
    /\ server \in {"index", "part"}
    /\ reader = "csv"
    /\ ttl \in 0..1
    /\ maxResults = DEFAULT_MAX_RESULTS
    /\ authKey = "k"
    /\ now = MaxTime - 1
    /\ cache = EmptyCache
    /\ req = [c \in Clients |-> Pending(IdleReq)]
    /\ ev = NoEvent
    /\ lastWrite = EmptyCache
    /\ flight = NoFlight
    /\ PureIdle

NextLive ==
    \/ Next
    \/ \E c \in Clients : FetchHangs(c)

\* Every fetch is settled or hangs for good; a body that arrives ends; the
\* continuation after the await of the reload runs.
FairLive ==
    \A c \in Clients :
        /\ WF_vars(FetchOk(c) \/ FetchFails(c) \/ FetchHangs(c))
        /\ WF_vars(BodyFails(c) \/ BodyArrives(c))
        /\ WF_vars(Search(c))

SpecLive == InitLive /\ [][NextLive]_vars /\ FairLive

(***************************************************************************)
(* Claims                                                                  *)
(***************************************************************************)
\* The last step was the call of ensureFresh()/ensureCacheFresh() by a
\* tools/call request.
CallStep == ev.step = "mcp" /\ ev.run.called

\* The last step ended a reload in failure (fetch, body or parse).
FailStep == ev.run.load = "failed"

\* The rows the reload of the last step parsed from the body it received.
ParsedBody(b) ==
    IF server = "part" THEN csvParse(CsvBody[b])
    ELSE IF reader = "api" THEN fetchSheetViaApiKey(ApiBody[b])
    ELSE parseCsvSimple(CsvBody[b])

\* C1: a reload that fails (fetch, body or parse) leaves cache.rows and
\* cache.loadedAt exactly as they were, and the caller gets the failure, not
\* a result; the steps of the call before the failure (the call itself, the
\* answer's status line) do not touch the cache either.
C1_FailedReloadKeepsCache ==
    /\ FailStep => /\ cache = ev.before
                   /\ ev.run.pc = "done"
                   /\ ev.run.resp.kind = "error"
    /\ ev.step \in {"mcp", "fetchOk"} => cache = ev.before

\* C1 witness: a fetch has failed while the cache held the rows of an
\* earlier load.
C1_Witness ==
    /\ FailStep
    /\ ev.step \in {"fetchFails", "bodyFails", "parseFails"}
    /\ cache.loadedAt > 0
    /\ Len(cache.rows) > 0

\* C2 as stated: after any successful load (loadedAt # 0), a call of
\* ensureFresh() made less than ttl seconds after it performs no fetch.
C2_Original ==
    (CallStep /\ ev.run.loaded0 /\ ev.run.age0 < ttl) => ev.run.loads = 0

\* C2 amended: after a successful load that produced at least one row, a call
\* of ensureFresh() made less than ttl seconds after it performs no fetch, so
\* that load's fetch is the only one.
C2_IdempotentWithinTtl ==
    (CallStep /\ ev.run.rows0 > 0 /\ ev.run.age0 < ttl)
        => (ev.run.loads = 0 /\ ev.run.pc = "search")

\* C2 witness: a call found rows younger than ttl and went on to the search.
C2_Witness ==
    /\ CallStep
    /\ ev.run.rows0 > 0
    /\ ev.run.age0 < ttl
    /\ ev.run.pc = "search"

\* C3 as stated: once now - loadedAt >= ttl, the next ensureFresh() performs
\* exactly one fetch, and when the fetch succeeds the cache is exactly the
\* newly parsed rows with loadedAt = now.
C3_Original ==
    /\ (CallStep /\ ev.run.age0 >= ttl) => ev.run.loads = 1
    /\ ev.step = "loaded" =>
           cache = [loadedAt |-> now, rows |-> ParsedBody(ev.run.body)]

\* C4 as stated: a search whose query is empty after trimming returns the
\* empty sequence.
C4_Original ==
    (ev.step = "search" /\ trim(OrEmpty(ev.run.q)) = <<>>)
        => ev.run.resp.videos = <<>>

\* The records of the rows that match q, each row searched on its own, in
\* row order.
RECURSIVE Matches(_, _)
Matches(rows, q) ==
    IF rows = <<>> THEN <<>>
    ELSE SearchFn(<<Head(rows)>>, 1, q) \o Matches(Tail(rows), q)

IsPrefix(a, b) == Len(a) <= Len(b) /\ a = SubSeq(b, 1, Len(a))

\* C5 as stated: for every query, row sequence and MAX_RESULTS the search
\* returns at most MAX_RESULTS records (no record at all is the only way to
\* return at most a negative number), and they are the first matching rows in
\* row order.
C5_Original ==
    phase = "out" =>
        /\ (Len(videos) <= maxResults \/ videos = <<>>)
        /\ IsPrefix(videos, Matches(cache.rows, query))

\* C5, for MAX_RESULTS >= 0 only: the bound and the order hold.
C5_NonNegativeBound ==
    (phase = "out" /\ maxResults >= 0) =>
        /\ Len(videos) <= maxResults
        /\ IsPrefix(videos, Matches(cache.rows, query))
        /\ (Len(videos) < maxResults => videos = Matches(cache.rows, query))

\* C6 as stated: every record a search returns has a title and a url that
\* are not empty after trimming.
C6_Original ==
    ev.step = "search" =>
        \A i \in 1..Len(ev.run.resp.videos) :
            /\ trim(ev.run.resp.videos[i].title) # <<>>
            /\ trim(ev.run.resp.videos[i].url) # <<>>

\* C7: a tools/call request whose reload fails is answered with an
\* application error (a JSON-RPC error object with a code), never with a
\* payload of videos.
C7_FailedReloadAnswersError ==
    FailStep =>
        /\ ev.run.called
        /\ ev.run.resp.kind = "error"
        /\ ev.run.resp.code # 0
        /\ ev.run.resp.videos = NoVideos

\* C7 witness: part_000 has answered a failed reload while the cache held
\* stale rows that a search would have returned.
C7_Witness ==
    /\ FailStep
    /\ server = "part"
    /\ searchVideosPart(cache.rows, maxResults, <<"a">>) # <<>>

\* C8 as stated: with ttl <= 0 every call of ensureFresh() attempts a fetch.
C8_Original == (CallStep /\ ttl <= 0) => ev.run.loads = 1

\* The lines of a text, told by where they end: a line ends at a "\n" or at
\* the end of the text, and is blank when it holds white space only.
LineEnds(text) == {i \in 1..Len(text) : text[i] = "\n"} \cup {Len(text) + 1}

LineStart(text, e) ==
    LET before == {i \in LineEnds(text) : i < e}
    IN  IF before = {} THEN 1
        ELSE 1 + (CHOOSE i \in before : \A j \in before : j <= i)

LineText(text, e) == SubSeq(text, LineStart(text, e), e - 1)

NonBlankEnds(text) ==
    {e \in LineEnds(text) : \E j \in LineStart(text, e)..(e - 1) : ~IsSpace(text[j])}

\* The k-th line of the text that is not blank.
NonBlankLine(text, k) ==
    LET ends == NonBlankEnds(text)
        e == CHOOSE x \in ends : Cardinality({y \in ends : y <= x}) = k
    IN  LineText(text, e)

C10_ReadersSeeOneLoad ==
    /\ cache = lastWrite
    /\ CallStep => /\ ev.run.age0 = now - lastWrite.loadedAt
                   /\ ev.run.rows0 = Len(lastWrite.rows)
    /\ ev.step = "root" =>
           /\ ev.run.resp.cached_rows = Len(lastWrite.rows)
           /\ ev.run.resp.cache_age_seconds =
                  IF lastWrite.loadedAt # 0 THEN <<now - lastWrite.loadedAt>>
                  ELSE NoAge
    /\ ev.step = "search" =>
           ev.run.resp.videos =
               SearchFn(lastWrite.rows, maxResults,
                        IF server = "part" THEN OrEmpty(ev.run.q) ELSE ev.run.q)

\* C10 witness: a reload has replaced the rows of an earlier load at a later
\* second while the other connection was in the middle of its own reload.
C10_Witness ==
    /\ ev.step = "loaded"
    /\ ev.before.loadedAt > 0
    /\ ev.before.loadedAt < cache.loadedAt
    /\ ev.before.rows # cache.rows
    /\ \E c \in Clients : c # ev.c /\ req[c].pc \in {"fetch", "text"}

\* No reload is in flight: every reload that started has completed.
Quiescent == flight.order = <<>>

\* C11: a reload that completes writes the rows parsed from its own fetch
\* into the cache, whether or not reloads that started after it have
\* completed before it; so once every reload has completed, cache.rows is the
\* rows of the reload that completed last.
C11_LastCompletedWins ==
    /\ ev.step = "loaded" => cache.rows = ParsedBody(ev.run.body)
    /\ Quiescent => cache.rows = lastWrite.rows

\* C11 witness: two reloads ran concurrently; the one that started first
\* completed last, after the other had written different rows, and its rows
\* are the cache now that no reload is in flight.
C11_Witness ==
    /\ ev.step = "loaded"
    /\ ev.overtaken
    /\ Quiescent
    /\ ev.before.rows # cache.rows
    /\ cache.rows = ParsedBody(ev.run.body)

\* The cache as the freshness check of the running file judges it now.
StaleNow == IF server = "index" THEN ~isFresh ELSE isStale

\* The freshness check of the last call, from what it read.
StaleAtCall ==
    IF server = "index" THEN ~(ev.run.rows0 > 0 /\ ev.run.age0 < ttl)
    ELSE ev.run.rows0 = 0 \/ ev.run.age0 > ttl

\* A call reloads at most once, and it reloads exactly when its freshness
\* check finds the cache stale; a failure ends the call with an error answer.
NoRetry ==
    /\ ev.run.loads <= 1
    /\ CallStep => (ev.run.loads = 1 <=> StaleAtCall)
    /\ FailStep => /\ ev.run.pc = "done"
                   /\ ev.run.resp.kind = "error"

\* C12 as stated: no retry inside a call, the failure is reported to the
\* caller, and after every failed reload the cache is still stale, so that
\* the next call reloads.
C12_Original ==
    /\ NoRetry
    /\ FailStep => StaleNow

\* C12 amended: the same, the cache being still stale after a failed reload
\* unless another caller's reload has written the cache since the failed
\* reload's freshness check.
C12_NoRetryNextCallReloads ==
    /\ NoRetry
    /\ (FailStep /\ ~ev.written) => StaleNow

\* C12 witness: a fetch issued over stale rows of an earlier load has failed,
\* nothing has written the cache meanwhile, and the cache is still stale.
C12_Witness ==
    /\ FailStep
    /\ ev.step \in {"fetchFails", "bodyFails"}
    /\ ~ev.written
    /\ Len(cache.rows) > 0
    /\ StaleNow

\* C13: a request whose fetch never completes takes no further step (it gets
\* no response and writes nothing to the cache), and every other request
\* that waits for its fetch, for its body or for its search is answered,
\* unless its own fetch never completes.
C13_HungFetchBlocksOnlyItself ==
    /\ \A c \in Clients :
           (req[c].pc \in {"fetch", "text", "search"})
               ~> (req[c].pc \in {"idle", "hung"})
    /\ [][\A c \in Clients :
             req[c].pc = "hung" => (req'[c] = req[c] /\ ev'.c # c)]_vars

\* C13 witness: while the fetch of one connection hangs, the other
\* connection has been answered with videos from rows that were loaded after
\* the hanging request's freshness check.
C13_Witness ==
    \E c \in Clients :
        /\ req[c].pc = "hung"
        /\ c \in flight.written
        /\ ev.step = "search"
        /\ ev.c # c
        /\ ev.run.resp.kind = "videos"
        /\ ev.run.resp.videos # <<>>

\* C14: a call of ensureFresh() that finds rows and now - loadedAt < ttl
\* performs no fetch and leaves cache.rows and cache.loadedAt as they were:
\* loadedAt is not moved to the time of the hit.
C14_CacheHitFrame ==
    (CallStep /\ ev.run.rows0 > 0 /\ ev.run.age0 < ttl) =>
        /\ ev.run.loads = 0
        /\ ev.run.load = "none"
        /\ cache = ev.before
        /\ cache.loadedAt = now - ev.run.age0

\* C14 witness: a hit on rows loaded at an earlier second.
C14_Witness ==
    /\ CallStep
    /\ ev.run.rows0 > 0
    /\ ev.run.age0 > 0
    /\ ev.run.age0 < ttl
    /\ ev.run.pc = "search"
    /\ cache.loadedAt < now

\* C15: a call of ensureFresh() that finds no rows starts a reload, whatever
\* loadedAt and ttl are; the fetch is issued when a reader is configured
\* (without one the reload fails before it).
C15_EmptyRowsAlwaysReload ==
    (CallStep /\ ev.run.rows0 = 0) =>
        /\ ev.run.loads = 1
        /\ reader \in {"csv", "api"} => ev.run.pc = "fetch"
        /\ reader \notin {"csv", "api"} => FailStep

\* C15 witness: a call less than ttl seconds after a successful load of zero
\* rows has issued a fetch.
C15_Witness ==
    /\ CallStep
    /\ ev.run.rows0 = 0
    /\ ev.run.loaded0
    /\ ev.run.age0 < ttl
    /\ ev.run.pc = "fetch"

\* The body b has fewer than two lines that are not blank (for the Sheets
\* API reader: fewer than two rows of values).
FewLines(b) ==
    IF reader = "api"
    THEN ("values" \notin DOMAIN ApiBody[b]) \/ Len(ApiBody[b].values) < 2
    ELSE Cardinality(NonBlankEnds(CsvBody[b])) < 2

\* C16: a body with fewer than two non-blank lines ends the reload in
\* success: the cache becomes zero rows with loadedAt = now and the handler
\* goes on to the search; and a search of zero rows answers with the empty
\* sequence of videos as a result, not as an error.
C16_FewLinesIsEmptySuccess ==
    /\ (ev.run.body # "" /\ FewLines(ev.run.body)) =>
           /\ ev.step = "loaded"
           /\ ev.run.load = "ok"
           /\ ev.run.pc = "search"
           /\ cache = [loadedAt |-> now, rows |-> <<>>]
    /\ (ev.step = "search" /\ cache.rows = <<>>) =>
           /\ ev.run.resp.status = 200
           /\ ev.run.resp.kind = "videos"
           /\ ev.run.resp.videos = <<>>

\* C16 witness: index.js has loaded a CSV text of fewer than two lines and
\* has answered the search for "a" of the request that triggered the reload
\* with a result.
C16_Witness ==
    /\ server = "index"
    /\ reader = "csv"
    /\ ev.step = "search"
    /\ ev.run.load = "ok"
    /\ ev.run.q = <<"a">>
    /\ cache.rows = <<>>
    /\ cache.loadedAt > 1
    /\ ev.run.resp.kind = "videos"

\* q occurs in h as a contiguous run of characters.
IsSubstring(q, h) ==
    \E i \in 1..(Len(h) - Len(q) + 1) : SubSeq(h, i, i + Len(q) - 1) = q

\* The stored value of a column of a row, "" when the row has no such column.
Stored(row, col) == IF col \in DOMAIN row THEN row[col] ELSE <<>>

\* The row is one the search for q is to return: title and url are not
\* empty and the lower-cased q occurs in lower(title) + " " +
\* lower(description).
IsMatch(row, q) ==
    /\ Stored(row, TITLE_COL) # <<>>
    /\ Stored(row, URL_COL) # <<>>
    /\ IsSubstring(toLowerCase(q),
                   toLowerCase(Stored(row, TITLE_COL)) \o <<" ">>
                       \o toLowerCase(Stored(row, DESC_COL)))

\* C17 as stated: for a query that is not empty and a result bound that is
\* not reached, the search returns a record for exactly the rows that match,
\* in row order, each with the url as stored.
C17_Original ==
    (phase = "out" /\ trim(query) # <<>> /\ Len(videos) < maxResults) =>
        LET hits == SelectSeq(cache.rows, LAMBDA row : IsMatch(row, query))
        IN  /\ Len(videos) = Len(hits)
            /\ \A i \in 1..Len(hits) :
                   /\ videos[i].title = Stored(hits[i], TITLE_COL)
                   /\ videos[i].url = Stored(hits[i], URL_COL)

\* C18: a step changes the cache only when it is the completion of a
\* successful reload, and then the cache becomes the pair of the completion
\* time and the rows parsed by that reload; every other step (the dispatch of
\* any method, a cache hit, a failed fetch, body or parse, the search, GET /,
\* GET /health, the clock) leaves cache.rows and cache.loadedAt as they were.
C18_OnlyReloadWritesCache ==
    [][cache' # cache =>
          LET b == ev'.run.body
          IN  /\ ev'.step = "loaded"
              /\ ev'.run.load = "ok"
              /\ cache' = [loadedAt |-> now', rows |-> ParsedBody(b)]]_vars

\* C18 witness: a reload has completed and replaced rows and loadedAt of an
\* earlier load, both at once.
C18_Witness ==
    /\ ev.step = "loaded"
    /\ ev.before.rows # <<>>
    /\ cache.rows = <<>>
    /\ ev.before.loadedAt # cache.loadedAt
    /\ cache = [loadedAt |-> now, rows |-> ParsedBody(ev.run.body)]

\* The last step was a POST /mcp whose Authorization header is not
\* "Bearer " followed by MCP_AUTH_KEY.
UnauthorizedStep == ev.step = "mcp" /\ ~ev.authorized

\* The request was answered at once, before any dispatch: no call of
\* ensureFresh(), no fetch, no change of the cache, no videos.
NotDispatched ==
    /\ ev.run.pc = "done"
    /\ ~ev.run.called
    /\ ev.run.loads = 0
    /\ ev.run.load = "none"
    /\ cache = ev.before
    /\ req[ev.c].pc = "idle"
    /\ ev.run.resp.kind = "error"
    /\ ev.run.resp.videos = NoVideos

\* C19 as stated: such a request is answered with the Unauthorized error
\* before any dispatch.
C19_Original ==
    UnauthorizedStep => (NotDispatched /\ ev.run.resp = Unauthorized)

\* C19 amended: such a request is answered with an error before any
\* dispatch: the Unauthorized error, or, by index.js when no MCP_AUTH_KEY is
\* configured, the error "Server missing MCP_AUTH_KEY".
C19_UnauthorizedNeverDispatched ==
    UnauthorizedStep =>
        /\ NotDispatched
        /\ ev.run.resp = IF server = "index" /\ authKey = "" THEN MissingKey
                         ELSE Unauthorized

\* C19 witness: a request with a wrong header was answered Unauthorized while
\* the cache held rows that were stale.
C19_Witness ==
    /\ UnauthorizedStep
    /\ ev.run.resp = Unauthorized
    /\ cache.rows # <<>>
    /\ StaleNow

\* C20: in every reachable state loadedAt is 0 exactly when no reload has
\* completed successfully, rows are held only with loadedAt > 0, and a
\* reload that completes stamps the cache with the time of its completion;
\* and no step, under any interleaving of reloads, decreases loadedAt.
C20_LoadedAtMonotone ==
    /\ [](/\ (cache.loadedAt = 0 <=> lastWrite = EmptyCache)
          /\ (cache.rows # <<>> => cache.loadedAt > 0)
          /\ cache.loadedAt <= now
          /\ (ev.step = "loaded" => cache.loadedAt = now))
    /\ [][cache'.loadedAt >= cache.loadedAt]_vars

\* C20 witness: a reload has completed at a later second than the write of
\* a reload that had started after it: its own fetch had started before that
\* second, and loadedAt is the second of its completion.
C20_Witness ==
    /\ ev.step = "loaded"
    /\ ev.overtaken
    /\ ev.before.loadedAt > 0
    /\ ev.before.loadedAt < now
    /\ cache.loadedAt = now
    /\ cache.rows # <<>>

====
